---- MODULE Spec2Model ----
(***************************************************************************)
(* Verification model of the adaptive task manager frontend:               *)
(*   - Pagination            (frontend/components/Pagination.tsx)          *)
(*   - DynamicTable          (components/DynamicTable.tsx)                 *)
(*   - DynamicForm           (frontend/components/DynamicForm.tsx)         *)
(*   - useSchema             (frontend/hooks/useSchema.ts)                 *)
(*   - useCRUD               (hooks/useCRUD.ts) on the React Query cache   *)
(*   - TasksPage             (frontend/app/tasks/page.tsx)                 *)
(*   - TaskList              (components/TaskList.tsx)                     *)
(* Each component has its own specification over its own variables; the    *)
(* variables of the other components stay at their idle values.            *)
(***************************************************************************)
EXTENDS Integers, Sequences, FiniteSets, TLC

VARIABLES
  \* Pagination
  currentPage, totalPages, disabled, pgView, pgEmitted,
  \* DynamicTable / DynamicForm rendering
  rHook, rTable, rForm,
  \* DynamicTable with its props and the handler calls it has made
  tProps, tCalls, tLast,
  \* one rendered field control with the draft value of its field
  dField, dValue, dInput,
  \* the promise onSubmit returned to DynamicForm.handleSubmit
  fPromise,
  \* TaskList: its state, the backend's tasks and the requests in flight
  lTasks, lLoading, lError, lEditing, lServer, lOps, lIssued, lFailed,
  \* useSchema
  modelName, schema, loading, error, apiUrl, sMounted, sInFlight, sCalls, sLast,
  \* TasksPage with its DynamicForm
  showForm, editingTask, formData, submitting, fSchema, fRequests,
  \* useCRUD: the backend, the React Query cache and the mutations in flight
  server, page, query, fetch, muts, cIssued, cLast

pgVars == <<currentPage, totalPages, disabled, pgView, pgEmitted>>
tVars == <<tProps, tCalls, tLast>>
dVars == <<dField, dValue, dInput>>
lVars == <<lTasks, lLoading, lError, lEditing, lServer, lOps, lIssued, lFailed>>
xVars == <<dVars, fPromise, lVars>>
rVars == <<rHook, rTable, rForm, tVars, xVars>>
sVars == <<modelName, schema, loading, error, apiUrl, sMounted, sInFlight,
           sCalls, sLast>>
fVars == <<showForm, editingTask, formData, submitting, fSchema, fRequests>>
cVars == <<server, page, query, fetch, muts, cIssued, cLast>>
vars == <<pgVars, rVars, sVars, fVars, cVars>>

None == "none"

\* the k-th (1-based) element of a set of naturals, in increasing order
Nth(S, k) == CHOOSE i \in S : Cardinality({ j \in S : j < i }) = k - 1

(***************************************************************************)
(* Pagination                                                              *)
(***************************************************************************)
MaxPages == 10

\* the '...' entry of the page list; page numbers are >= 1
Ellipsis == 0
showPages == 5

\* for (let i = first; i <= last; i++) pages.push(i)
RECURSIVE PushRange(_, _, _)
PushRange(pages, i, last) ==
  IF i > last THEN pages ELSE PushRange(Append(pages, i), i + 1, last)

\* getPageNumbers with the near-end test one page late
getPageNumbers_LateNearEnd(cp, tp) ==
  IF tp <= showPages
    THEN PushRange(<<>>, 1, tp)
    ELSE IF cp <= 3
      THEN Append(Append(PushRange(<<>>, 1, 4), Ellipsis), tp)
      ELSE IF cp >= tp - 1
        THEN PushRange(<<1, Ellipsis>>, tp - 3, tp)
        ELSE Append(Append(PushRange(<<1, Ellipsis>>, cp - 1, cp + 1), Ellipsis), tp)

\* getPageNumbers whose near-start branch lists five pages
getPageNumbers_NearStartFive(cp, tp) ==
  IF tp <= showPages
    THEN PushRange(<<>>, 1, tp)
    ELSE IF cp <= 3
      THEN Append(Append(PushRange(<<>>, 1, 5), Ellipsis), tp)
      ELSE IF cp >= tp - 2
        THEN PushRange(<<1, Ellipsis>>, tp - 3, tp)
        ELSE Append(Append(PushRange(<<1, Ellipsis>>, cp - 1, cp + 1), Ellipsis), tp)

getPageNumbers(cp, tp) ==
  IF tp <= showPages
    THEN PushRange(<<>>, 1, tp)
    ELSE IF cp <= 3
      THEN Append(Append(PushRange(<<>>, 1, 4), Ellipsis), tp)
      ELSE IF cp >= tp - 2
        THEN PushRange(<<1, Ellipsis>>, tp - 3, tp)
        ELSE Append(Append(PushRange(<<1, Ellipsis>>, cp - 1, cp + 1), Ellipsis), tp)

\* Pagination whose Next button is disabled by the flag only
Pagination_NextByFlagOnly(cp, tp, dis) ==
  IF tp <= 1
    THEN [shown |-> FALSE, pages |-> <<>>, prevDisabled |-> TRUE,
          nextDisabled |-> TRUE, pageDisabled |-> TRUE]
    ELSE [shown |-> TRUE, pages |-> getPageNumbers(cp, tp),
          prevDisabled |-> (cp = 1 \/ dis),
          nextDisabled |-> dis,
          pageDisabled |-> dis]

\* what the component returns: null (shown = FALSE) or the row of buttons
Pagination(cp, tp, dis) ==
  IF tp <= 1
    THEN [shown |-> FALSE, pages |-> <<>>, prevDisabled |-> TRUE,
          nextDisabled |-> TRUE, pageDisabled |-> TRUE]
    ELSE [shown |-> TRUE, pages |-> getPageNumbers(cp, tp),
          prevDisabled |-> (cp = 1 \/ dis),
          nextDisabled |-> (cp = tp \/ dis),
          pageDisabled |-> dis]

PaginationIdle ==
  /\ currentPage = 1
  /\ totalPages = 1
  /\ disabled = FALSE
  /\ pgView = Pagination(1, 1, FALSE)
  /\ pgEmitted = 0

InitPagination ==
  /\ totalPages \in 0..MaxPages
  /\ currentPage \in 1..(IF totalPages < 1 THEN 1 ELSE totalPages)
  /\ disabled \in BOOLEAN
  /\ pgView = Pagination(currentPage, totalPages, disabled)
  /\ pgEmitted = 0

\* onPageChange(p): the parent stores p and renders the control again
onPageChange(p) ==
  /\ pgEmitted' = p
  /\ currentPage' = p
  /\ pgView' = Pagination(p, totalPages, disabled)
  /\ UNCHANGED <<totalPages, disabled>>

ClickPrevious ==
  /\ pgView.shown
  /\ ~pgView.prevDisabled
  /\ onPageChange(currentPage - 1)
  /\ UNCHANGED <<rVars, sVars, fVars, cVars>>

ClickNext ==
  /\ pgView.shown
  /\ ~pgView.nextDisabled
  /\ onPageChange(currentPage + 1)
  /\ UNCHANGED <<rVars, sVars, fVars, cVars>>

ClickPage ==
  /\ pgView.shown
  /\ ~pgView.pageDisabled
  /\ \E i \in 1..Len(pgView.pages) :
       /\ pgView.pages[i] # Ellipsis
       /\ onPageChange(pgView.pages[i])
  /\ UNCHANGED <<rVars, sVars, fVars, cVars>>

\* the parent toggles the disabled flag (a list fetch starts or ends)
SetDisabled ==
  /\ disabled' = ~disabled
  /\ pgView' = Pagination(currentPage, totalPages, disabled')
  /\ UNCHANGED <<currentPage, totalPages, pgEmitted>>
  /\ UNCHANGED <<rVars, sVars, fVars, cVars>>

(***************************************************************************)
(* Schema-driven rendering: DynamicTable and DynamicForm as functions of   *)
(* the useSchema result and the props                                      *)
(***************************************************************************)
MaxFields == 3

\* FieldSchema entries the schemas are built from (types/schema.ts)
FieldPool ==
  { [name |-> "id",         type |-> "BigAutoField",  choices |-> <<>>],
    [name |-> "id",         type |-> "IntegerField",  choices |-> <<>>],
    [name |-> "uid",        type |-> "AutoField",     choices |-> <<>>],
    [name |-> "title",      type |-> "CharField",     choices |-> <<>>],
    [name |-> "priority",   type |-> "CharField",     choices |-> <<"low", "high">>],
    [name |-> "completed",  type |-> "BooleanField",  choices |-> <<>>],
    [name |-> "created_at", type |-> "DateTimeField", choices |-> <<>>],
    [name |-> "updated_at", type |-> "DateTimeField", choices |-> <<>>] }

\* FieldSchema.name is unique within a ModelSchema
UniqueNames(fields) ==
  \A i, j \in 1..Len(fields) : fields[i].name = fields[j].name => i = j

FieldSeqs ==
  { fs \in UNION { [1..n -> FieldPool] : n \in 0..MaxFields } : UniqueNames(fs) }

\* a ModelSchema; NullSchema stands for schema = null
NullSchema == [model_name |-> None, fields |-> <<>>]
IsNull(s) == s.model_name = None
ModelSchema(m, fs) == [model_name |-> m, fields |-> fs]

\* DynamicTable: the predicate of schema.fields.filter(...)
displayField(field) ==
  /\ field.name # "id"
  /\ field.type # "AutoField"
  /\ field.type # "BigAutoField"
  /\ field.name # "updated_at"

\* const displayFields = schema.fields.filter(...), in array order
RECURSIVE displayFields(_)
displayFields(fields) ==
  IF fields = <<>> THEN <<>>
  ELSE (IF displayField(Head(fields)) THEN <<Head(fields)>> ELSE <<>>)
         \o displayFields(Tail(fields))

FieldColumn(field) == [kind |-> "field", name |-> field.name]
IdColumn == [kind |-> "id", name |-> "#"]
ActionsColumn == [kind |-> "actions", name |-> "Actions"]

\* displayFields.slice(0, 4)
CardFieldLimit == 4
Slice(s, n) == SubSeq(s, 1, IF Len(s) < n THEN Len(s) ELSE n)

\* schema.verbose_name_plural, as its characters
verbose_name_plural(s) ==
  CASE s.model_name = "Task" -> <<"T", "a", "s", "k", "s">>
    [] s.model_name = "User" -> <<"U", "s", "e", "r", "s">>
    [] OTHER -> <<>>

\* String.prototype.toLowerCase
toLowerCase(str) ==
  [i \in 1..Len(str) |->
     CASE str[i] = "T" -> "t"
       [] str[i] = "U" -> "u"
       [] OTHER -> str[i]]

\* the text a state shows: none, the error line or the empty-state line
NoMessage == [text |-> None, name |-> <<>>]
ErrorMessage(hook) ==
  [text |-> IF hook.error # None THEN hook.error ELSE "Schema not found",
   name |-> <<>>]
EmptyMessage(s) ==
  [text |-> "No ... found.", name |-> toLowerCase(verbose_name_plural(s))]

\* DynamicTable with the empty-state test ahead of the error test
DynamicTable_EmptyFirst(hook, dataLen, loadingProp, onEdit, onDelete, isMobile) ==
  [state |-> IF loadingProp \/ hook.loading THEN "skeleton"
             ELSE IF dataLen = 0 THEN "empty"
             ELSE IF hook.error # None \/ IsNull(hook.schema) THEN "error"
             ELSE IF isMobile THEN "cards" ELSE "table",
   header |-> <<>>, cardFields |-> <<>>, actions |-> onEdit \/ onDelete,
   props |-> [onEdit |-> onEdit, onDelete |-> onDelete],
   message |-> NoMessage]

\* what DynamicTable returns for a useSchema result and its props
DynamicTable(hook, dataLen, loadingProp, onEdit, onDelete, isMobile) ==
  LET props == [onEdit |-> onEdit, onDelete |-> onDelete]
      blank == [state |-> "skeleton", header |-> <<>>, cardFields |-> <<>>,
                actions |-> FALSE, props |-> props, message |-> NoMessage]
  IN
  IF loadingProp \/ hook.loading
    THEN blank
    ELSE IF hook.error # None \/ IsNull(hook.schema)
      THEN [blank EXCEPT !.state = "error", !.message = ErrorMessage(hook)]
      ELSE IF dataLen = 0
        THEN [blank EXCEPT !.state = "empty",
                           !.message = EmptyMessage(hook.schema)]
        ELSE LET shown == displayFields(hook.schema.fields)
                 cols == [i \in 1..Len(shown) |-> FieldColumn(shown[i])]
             IN IF isMobile
               THEN [blank EXCEPT !.state = "cards",
                                  !.cardFields = Slice(cols, CardFieldLimit),
                                  !.actions = (onEdit \/ onDelete)]
               ELSE [blank EXCEPT !.state = "table",
                                  !.header = <<IdColumn>> \o cols
                                     \o (IF onEdit \/ onDelete
                                           THEN <<ActionsColumn>> ELSE <<>>),
                                  !.actions = (onEdit \/ onDelete)]

\* renderInput with the switch on field.type ahead of the choices test
renderInput_TypeFirst(field) ==
  CASE field.type = "BooleanField" -> "checkbox"
    [] field.type = "TextField" -> "textarea"
    [] OTHER -> IF Len(field.choices) > 0 THEN "select" ELSE "text"

\* renderInput: the control chosen for a field
renderInput(field) ==
  IF Len(field.choices) > 0 THEN "select"
  ELSE CASE field.type = "TextField" -> "textarea"
         [] field.type = "BooleanField" -> "checkbox"
         [] field.type \in {"IntegerField", "BigIntegerField", "SmallIntegerField"}
              -> "number"
         [] field.type \in {"DecimalField", "FloatField"} -> "decimal"
         [] field.type = "DateField" -> "date"
         [] field.type = "DateTimeField" -> "datetime-local"
         [] field.type = "EmailField" -> "email"
         [] field.type = "URLField" -> "url"
         [] OTHER -> "text"

\* DynamicField without the timestamp test (the filter DynamicTable applies
\* to created_at)
DynamicField_ShowsCreatedAt(field) ==
  IF field.name = "id" \/ field.type = "AutoField" \/ field.type = "BigAutoField"
    THEN <<>>
    ELSE IF field.name = "updated_at"
      THEN <<>>
      ELSE << [name |-> field.name, control |-> renderInput(field)] >>

\* DynamicField: null (no control) for the auto-generated fields, else the
\* labelled control
DynamicField(field) ==
  IF field.name = "id" \/ field.type = "AutoField" \/ field.type = "BigAutoField"
    THEN <<>>
    ELSE IF field.name = "created_at" \/ field.name = "updated_at"
      THEN <<>>
      ELSE << [name |-> field.name, control |-> renderInput(field)] >>

\* schema.fields.map((field) => <DynamicField .../>)
RECURSIVE FieldMap(_)
FieldMap(fields) ==
  IF fields = <<>> THEN <<>>
  ELSE DynamicField(Head(fields)) \o FieldMap(Tail(fields))

\* what DynamicForm returns for a useSchema result
DynamicForm(hook) ==
  IF hook.loading
    THEN [state |-> "skeleton", controls |-> <<>>]
    ELSE IF hook.error # None \/ IsNull(hook.schema)
      THEN [state |-> "error", controls |-> <<>>]
      ELSE [state |-> "form", controls |-> FieldMap(hook.schema.fields)]

\* props of a DynamicTable before the parent has any data: data = [],
\* loading = false, no handlers
NoProps == [data |-> <<>>, loading |-> FALSE, onEdit |-> FALSE,
            onDelete |-> FALSE, isMobile |-> FALSE]
NoEvent == [type |-> None]

TableIdle ==
  /\ tProps = NoProps
  /\ tCalls = <<>>
  /\ tLast = NoEvent

(***************************************************************************)
(* One field control: the control renderInput chooses for a field and the  *)
(* value its onChange hands to handleFieldChange.  Strings are sequences   *)
(* of characters; a draft value is tagged with its JavaScript type.        *)
(***************************************************************************)
MaxInput == 3

\* field.type values: those renderInput has a case for, and others
FieldTypes ==
  {"TextField", "BooleanField", "IntegerField", "BigIntegerField",
   "SmallIntegerField", "DecimalField", "FloatField", "DateField",
   "DateTimeField", "EmailField", "URLField", "CharField",
   "JSONField", "ForeignKey"}

\* field.choices: absent or empty, or a list of options
ChoiceLists == { <<>>, <<"low", "high">> }

ControlFields ==
  [name : {"amount"}, type : FieldTypes, choices : ChoiceLists]

\* e.target.value: what can be in the input element
Chars == {"0", "1", "-", ".", "a"}
Digits == {"0", "1"}
Inputs == UNION { [1..n -> Chars] : n \in 0..MaxInput }

Undefined == [kind |-> "undefined"]
NaN == [kind |-> "NaN"]
Str(chars) == [kind |-> "string", chars |-> chars]
Bool(b) == [kind |-> "boolean", b |-> b]

\* the longest prefix of decimal digits
RECURSIVE DigitPrefix(_)
DigitPrefix(str) ==
  IF str # <<>> /\ Head(str) \in Digits
    THEN <<Head(str)>> \o DigitPrefix(Tail(str))
    ELSE <<>>

\* the value of a digit string
RECURSIVE DigitsValue(_)
DigitsValue(ds) ==
  IF ds = <<>> THEN 0
  ELSE 10 * DigitsValue(SubSeq(ds, 1, Len(ds) - 1))
         + (IF ds[Len(ds)] = "1" THEN 1 ELSE 0)

\* fraction digits without their trailing zeros
RECURSIVE StripZeros(_)
StripZeros(ds) ==
  IF ds # <<>> /\ ds[Len(ds)] = "0"
    THEN StripZeros(SubSeq(ds, 1, Len(ds) - 1))
    ELSE ds

\* a Number: sign, integer part and fraction digits
Num(neg, int, frac) ==
  [kind |-> "number", neg |-> neg, int |-> int, frac |-> StripZeros(frac)]

Unsigned(str) == IF str # <<>> /\ Head(str) = "-" THEN Tail(str) ELSE str
Negative(str) == str # <<>> /\ Head(str) = "-"

\* parseInt(string): sign, then the longest digit prefix; NaN without a digit
parseInt(str) ==
  LET ds == DigitPrefix(Unsigned(str))
  IN IF ds = <<>> THEN NaN ELSE Num(Negative(str), DigitsValue(ds), <<>>)

\* parseFloat(string): sign, digits, optionally a point and digits; NaN
\* without a digit
parseFloat(str) ==
  LET body == Unsigned(str)
      ds == DigitPrefix(body)
      rest == SubSeq(body, Len(ds) + 1, Len(body))
      fs == IF rest # <<>> /\ Head(rest) = "." THEN DigitPrefix(Tail(rest))
            ELSE <<>>
  IN IF ds = <<>> /\ fs = <<>>
       THEN NaN
       ELSE Num(Negative(str), DigitsValue(ds), fs)

\* ToBoolean of the values a control produces
Falsy(v) ==
  \/ v = Undefined
  \/ v = NaN
  \/ v = Str(<<>>)
  \/ v = Bool(FALSE)
  \/ (v.kind = "number" /\ v.int = 0 /\ v.frac = <<>>)

\* the numeric onChange without the fallback: onChange(parseInt(...))
orEmpty_Parsed(v) == v

\* v || ''
orEmpty(v) == IF Falsy(v) THEN Str(<<>>) ELSE v

\* what the events of a control can carry: a chosen option, the checked
\* flag, or the text of the input element
ControlEvents(field) ==
  CASE renderInput(field) = "select" ->
         { [option |-> i] : i \in 1..Len(field.choices) }
    [] renderInput(field) = "checkbox" -> { [checked |-> b] : b \in BOOLEAN }
    [] OTHER -> { [value |-> str] : str \in Inputs }

\* the value the control's onChange passes on for an event
onChange(field, e) ==
  CASE renderInput(field) = "select" -> Str(<<field.choices[e.option]>>)
    [] renderInput(field) = "checkbox" -> Bool(e.checked)
    [] renderInput(field) = "number" -> orEmpty(parseInt(e.value))
    [] renderInput(field) = "decimal" -> orEmpty(parseFloat(e.value))
    [] OTHER -> Str(e.value)

NoInput == [none |-> TRUE]

\* no submission has been made
SubmitIdle == fPromise = None

FieldIdle ==
  /\ dField = [name |-> None, type |-> None, choices |-> <<>>]
  /\ dValue = Undefined
  /\ dInput = NoInput

\* a form with one field and the draft {}
InitField ==
  /\ dField \in ControlFields
  /\ dValue = Undefined
  /\ dInput = NoInput
  /\ rHook = [schema |-> ModelSchema("Task", <<dField>>), loading |-> FALSE,
              error |-> None]
  /\ rTable = [state |-> None]
  /\ rForm = [state |-> None]
  /\ TableIdle
  /\ SubmitIdle

\* the user acts on the control: handleFieldChange(field.name, value)
FieldChange ==
  /\ rForm.state = "form"
  /\ \E e \in ControlEvents(dField) :
       /\ dInput' = e
       /\ dValue' = onChange(dField, e)
  /\ UNCHANGED <<dField, rHook, rTable, rForm, tVars, fPromise, lVars>>
  /\ UNCHANGED <<pgVars, sVars, fVars, cVars>>

Unrendered == [state |-> None]

RenderIdle ==
  /\ rHook = [schema |-> NullSchema, loading |-> TRUE, error |-> None]
  /\ rTable = Unrendered
  /\ rForm = Unrendered
  /\ TableIdle
  /\ FieldIdle
  /\ SubmitIdle

InitRender ==
  /\ rHook \in [schema : {NullSchema} \cup { ModelSchema("Task", fs) : fs \in FieldSeqs },
                loading : BOOLEAN,
                error : {None, "Failed to fetch schema"}]
  /\ rTable = Unrendered
  /\ rForm = Unrendered
  /\ TableIdle
  /\ FieldIdle
  /\ SubmitIdle

RenderTable ==
  /\ \E dataLen \in 0..2, loadingProp, onEdit, onDelete, isMobile \in BOOLEAN :
       rTable' = DynamicTable(rHook, dataLen, loadingProp, onEdit, onDelete, isMobile)
  /\ UNCHANGED <<rHook, rForm, tVars, xVars>>
  /\ UNCHANGED <<pgVars, sVars, fVars, cVars>>

RenderForm ==
  /\ rForm' = DynamicForm(rHook)
  /\ UNCHANGED <<rHook, rTable, tVars, xVars>>
  /\ UNCHANGED <<pgVars, sVars, fVars, cVars>>

(***************************************************************************)
(* DynamicTable in use: the parent renders it with props, useSchema        *)
(* delivers its result, and the user clicks the row actions                *)
(***************************************************************************)
MaxClicks == 2

\* the rows a parent passes as data
TableItems == { [id |-> 1, title |-> "A"], [id |-> 2, title |-> "B"] }
TableData ==
  { <<>> } \cup { <<a>> : a \in TableItems }
    \cup { <<a, b>> : a, b \in TableItems }

\* the schema of the table's model: the fields of a Task
TableFields ==
  << [name |-> "id",         type |-> "BigAutoField",  choices |-> <<>>],
     [name |-> "title",      type |-> "CharField",     choices |-> <<>>],
     [name |-> "completed",  type |-> "BooleanField",  choices |-> <<>>],
     [name |-> "priority",   type |-> "CharField",     choices |-> <<>>],
     [name |-> "created_at", type |-> "DateTimeField", choices |-> <<>>] >>

\* the useSchema results of the table's model
TableHooks ==
  [schema : {NullSchema, ModelSchema("Task", TableFields)},
   loading : BOOLEAN,
   error : {None, "Failed to fetch schema"}]

\* the element DynamicTable returns for the current hook result and props
TableView(hook, props) ==
  DynamicTable(hook, Len(props.data), props.loading, props.onEdit,
               props.onDelete, props.isMobile)

\* the rows are on screen, as cards or as table rows
RowsShown == rTable.state \in {"cards", "table"}

InitTable ==
  /\ rHook = [schema |-> NullSchema, loading |-> TRUE, error |-> None]
  /\ tProps = NoProps
  /\ rTable = TableView(rHook, tProps)
  /\ rForm = Unrendered
  /\ tCalls = <<>>
  /\ tLast = NoEvent
  /\ FieldIdle
  /\ SubmitIdle

\* the parent renders the table with new props
TableProps ==
  /\ \E data \in TableData, l, e, dl, m \in BOOLEAN :
       /\ tProps' = [data |-> data, loading |-> l, onEdit |-> e,
                     onDelete |-> dl, isMobile |-> m]
       /\ tProps' # tProps
  /\ rTable' = TableView(rHook, tProps')
  /\ tLast' = [type |-> "props"]
  /\ UNCHANGED <<rHook, rForm, tCalls, xVars>>
  /\ UNCHANGED <<pgVars, sVars, fVars, cVars>>

\* useSchema delivers another result
TableHook ==
  /\ \E hook \in TableHooks :
       /\ hook # rHook
       /\ rHook' = hook
  /\ rTable' = TableView(rHook', tProps)
  /\ tLast' = [type |-> "hook"]
  /\ UNCHANGED <<rForm, tProps, tCalls, xVars>>
  /\ UNCHANGED <<pgVars, sVars, fVars, cVars>>

\* onClick of a row's Edit button: onEdit(item)
editClick(calls, item) ==
  Append(calls, [handler |-> "onEdit", item |-> item, id |-> item.id])

\* the Delete button without the confirmation
deleteClick_NoConfirm(calls, item, confirmed) ==
  Append(calls, [handler |-> "onDelete", item |-> item, id |-> item.id])

\* onClick of a row's Delete button with the answer confirm() returned:
\* if (confirm(...)) { onDelete(item.id) }
deleteClick(calls, item, confirmed) ==
  IF confirmed
    THEN Append(calls, [handler |-> "onDelete", item |-> item, id |-> item.id])
    ELSE calls

ClickEdit ==
  /\ RowsShown
  /\ tProps.onEdit
  /\ Len(tCalls) < MaxClicks
  /\ \E i \in 1..Len(tProps.data) :
       /\ tCalls' = editClick(tCalls, tProps.data[i])
       /\ tLast' = [type |-> "edit", row |-> i, n |-> Len(tCalls)]
  /\ UNCHANGED <<rHook, rTable, rForm, tProps, xVars>>
  /\ UNCHANGED <<pgVars, sVars, fVars, cVars>>

ClickDelete ==
  /\ RowsShown
  /\ tProps.onDelete
  /\ Len(tCalls) < MaxClicks
  /\ \E i \in 1..Len(tProps.data), confirmed \in BOOLEAN :
       /\ tCalls' = deleteClick(tCalls, tProps.data[i], confirmed)
       /\ tLast' = [type |-> "delete", row |-> i, n |-> Len(tCalls),
                    confirmed |-> confirmed]
  /\ UNCHANGED <<rHook, rTable, rForm, tProps, xVars>>
  /\ UNCHANGED <<pgVars, sVars, fVars, cVars>>

(***************************************************************************)
(* useSchema                                                               *)
(***************************************************************************)
MaxSchemaCalls == 4

ModelNames == {"Task", "User"}

\* the ModelSchema the backend serves for a model name
SchemaPayload(m) ==
  IF m = "Task"
    THEN ModelSchema("Task",
           << [name |-> "id", type |-> "BigAutoField", choices |-> <<>>],
              [name |-> "title", type |-> "CharField", choices |-> <<>>],
              [name |-> "completed", type |-> "BooleanField", choices |-> <<>>,
               default |-> FALSE],
              [name |-> "created_at", type |-> "DateTimeField", choices |-> <<>>],
              [name |-> "updated_at", type |-> "DateTimeField", choices |-> <<>>] >>)
    ELSE ModelSchema(m, << [name |-> "id", type |-> "BigAutoField", choices |-> <<>>] >>)

\* FieldSchema.default is optional
HasDefault(field) == "default" \in DOMAIN field

\* the ways a started request can end: response.ok with a JSON body, a
\* non-ok status, a rejected fetch with an Error, with a non-Error value, or
\* a body response.json() rejects
Outcomes == {"ok", "http", "network", "thrown", "parse"}

\* the Error the catch block stores for a failed request
CaughtError(outcome) ==
  CASE outcome = "http" -> "Failed to fetch schema: Not Found"
    [] outcome = "network" -> "Network error"
    [] outcome = "thrown" -> "Unknown error"
    [] outcome = "parse" -> "Unexpected token"

\* useState initial values, before the mount effect has run
InitSchema ==
  /\ modelName \in ModelNames
  /\ schema = NullSchema
  /\ loading = TRUE
  /\ error = None
  /\ apiUrl \in BOOLEAN
  /\ sMounted = FALSE
  /\ sInFlight = {}
  /\ sCalls = [fetches |-> 0, requests |-> 0, changes |-> 0, refetches |-> 0]
  /\ sLast = [type |-> None, model |-> None, n |-> 0]

SchemaIdle ==
  /\ modelName = "Task"
  /\ schema = NullSchema
  /\ loading = TRUE
  /\ error = None
  /\ apiUrl = TRUE
  /\ sMounted = FALSE
  /\ sInFlight = {}
  /\ sCalls = [fetches |-> 0, requests |-> 0, changes |-> 0, refetches |-> 0]
  /\ sLast = [type |-> None, model |-> None, n |-> 0]

\* fetchSchema without setError(null)
fetchSchema_KeepsError(m, calls) ==
  LET n == calls.fetches + 1 IN
  /\ UNCHANGED <<schema, apiUrl>>
  /\ IF apiUrl
       THEN /\ loading' = TRUE
            /\ error' = error
            /\ sCalls' = [calls EXCEPT !.fetches = n, !.requests = @ + 1]
            /\ sInFlight' = sInFlight \cup {[n |-> n, model |-> m]}
            /\ sLast' = [type |-> "start", model |-> m, n |-> n]
       ELSE /\ loading' = FALSE
            /\ error' = "NEXT_PUBLIC_API_URL is not defined"
            /\ sCalls' = [calls EXCEPT !.fetches = n]
            /\ sInFlight' = sInFlight
            /\ sLast' = [type |-> "config", model |-> m, n |-> n]

\* fetchSchema up to its first await, for the model name m of the render
\* it closes over; calls is the counter record after counting the trigger
fetchSchema(m, calls) ==
  LET n == calls.fetches + 1 IN
  /\ UNCHANGED <<schema, apiUrl>>
  /\ IF apiUrl
       THEN /\ loading' = TRUE
            /\ error' = None
            /\ sCalls' = [calls EXCEPT !.fetches = n, !.requests = @ + 1]
            /\ sInFlight' = sInFlight \cup {[n |-> n, model |-> m]}
            /\ sLast' = [type |-> "start", model |-> m, n |-> n]
       ELSE \* throw inside try: catch and finally run before any await
            /\ loading' = FALSE
            /\ error' = "NEXT_PUBLIC_API_URL is not defined"
            /\ sCalls' = [calls EXCEPT !.fetches = n]
            /\ sInFlight' = sInFlight
            /\ sLast' = [type |-> "config", model |-> m, n |-> n]

\* useEffect(() => { fetchSchema() }, [modelName]) on mount
Mount ==
  /\ ~sMounted
  /\ sMounted' = TRUE
  /\ UNCHANGED modelName
  /\ fetchSchema(modelName, sCalls)
  /\ UNCHANGED <<pgVars, rVars, fVars, cVars>>

\* the parent renders the hook with another model name: the effect runs again
ChangeModelName ==
  /\ sMounted
  /\ sCalls.fetches < MaxSchemaCalls
  /\ \E m \in ModelNames \ {modelName} :
       /\ modelName' = m
       /\ fetchSchema(m, [sCalls EXCEPT !.changes = @ + 1])
  /\ UNCHANGED sMounted
  /\ UNCHANGED <<pgVars, rVars, fVars, cVars>>

\* refetch: fetchSchema
Refetch ==
  /\ sMounted
  /\ sCalls.fetches < MaxSchemaCalls
  /\ fetchSchema(modelName, [sCalls EXCEPT !.refetches = @ + 1])
  /\ UNCHANGED <<modelName, sMounted>>
  /\ UNCHANGED <<pgVars, rVars, fVars, cVars>>

\* fetchSchema that drops the response of a call that is no longer the
\* latest one started
ResolveSchema_LatestOnly ==
  /\ \E f \in sInFlight, outcome \in Outcomes :
       /\ sInFlight' = sInFlight \ {f}
       /\ IF outcome = "ok"
            THEN /\ schema' = IF f.n = sCalls.fetches
                                THEN SchemaPayload(f.model) ELSE schema
                 /\ error' = error
                 /\ sLast' = [type |-> "ok", model |-> f.model, n |-> f.n]
            ELSE /\ schema' = schema
                 /\ error' = CaughtError(outcome)
                 /\ sLast' = [type |-> outcome, model |-> f.model, n |-> f.n]
       /\ loading' = FALSE
  /\ UNCHANGED <<modelName, apiUrl, sMounted, sCalls>>
  /\ UNCHANGED <<pgVars, rVars, fVars, cVars>>

\* the rest of fetchSchema once the awaited request of call f has ended
ResolveSchema ==
  /\ \E f \in sInFlight, outcome \in Outcomes :
       /\ sInFlight' = sInFlight \ {f}
       /\ IF outcome = "ok"
            THEN /\ schema' = SchemaPayload(f.model)
                 /\ error' = error
                 /\ sLast' = [type |-> "ok", model |-> f.model, n |-> f.n]
            ELSE /\ schema' = schema
                 /\ error' = CaughtError(outcome)
                 /\ sLast' = [type |-> outcome, model |-> f.model, n |-> f.n]
       /\ loading' = FALSE
  /\ UNCHANGED <<modelName, apiUrl, sMounted, sCalls>>
  /\ UNCHANGED <<pgVars, rVars, fVars, cVars>>

(***************************************************************************)
(* TasksPage and the DynamicForm it opens                                  *)
(***************************************************************************)
MaxSubmits == 2

\* the rows the table offers for editing: records as the list endpoint
\* returns them
FormTasks ==
  { [id |-> 1, title |-> "A", completed |-> FALSE,
     created_at |-> "t1", updated_at |-> "t1"],
    [id |-> 2, title |-> "B", completed |-> TRUE,
     created_at |-> "t2", updated_at |-> "t2"] }

\* editingTask = null, and {} (also the draft of an unmounted form)
NullTask == [null |-> TRUE]
EmptyRecord == [k \in {} |-> None]

\* { ...prev, [fieldName]: value }
Put(prev, fieldName, value) ==
  [k \in DOMAIN prev \cup {fieldName} |->
     IF k = fieldName THEN value ELSE prev[k]]

\* the values the control of a field can hand to onChange
ControlValues(control) ==
  IF control = "checkbox" THEN BOOLEAN ELSE {"C"}

\* isPending of the mutation a useMutation observer tracks: the request of
\* its latest mutate call
Latest(kind) ==
  LET mine == { i \in 1..Len(fRequests) : fRequests[i].kind = kind }
  IN IF mine = {} THEN 0 ELSE CHOOSE i \in mine : \A j \in mine : j <= i
isCreating == Latest("create") # 0 /\ fRequests[Latest("create")].status = "pending"
isUpdating == Latest("update") # 0 /\ fRequests[Latest("update")].status = "pending"

InitForm ==
  /\ showForm = FALSE
  /\ editingTask = NullTask
  /\ formData = EmptyRecord
  /\ submitting = FALSE
  /\ fSchema = "unmounted"
  /\ fRequests = <<>>

\* DynamicForm mounts: useState(initialData), useState(false), useSchema
MountForm(initialData) ==
  /\ formData' = initialData
  /\ submitting' = FALSE
  /\ fSchema' = "loading"

UnmountForm ==
  /\ formData' = EmptyRecord
  /\ submitting' = FALSE
  /\ fSchema' = "unmounted"

\* the "Create New Task" button, disabled={showForm || isCreating}
handleCreateNew ==
  /\ ~submitting
  /\ ~(showForm \/ isCreating)
  /\ editingTask' = NullTask
  /\ showForm' = TRUE
  /\ MountForm(EmptyRecord)
  /\ UNCHANGED fRequests
  /\ UNCHANGED <<pgVars, rVars, sVars, cVars>>

\* the Edit button of a row; a form that is already open stays mounted and
\* keeps its draft
handleEdit ==
  /\ ~submitting
  /\ \E task \in FormTasks :
       /\ editingTask' = task
       /\ showForm' = TRUE
       /\ IF showForm
            THEN UNCHANGED <<formData, submitting, fSchema>>
            ELSE MountForm(task)
  /\ UNCHANGED fRequests
  /\ UNCHANGED <<pgVars, rVars, sVars, cVars>>

\* the Cancel button inside the rendered form
handleCancel ==
  /\ ~submitting
  /\ showForm
  /\ fSchema = "ready"
  /\ showForm' = FALSE
  /\ editingTask' = NullTask
  /\ UnmountForm
  /\ UNCHANGED fRequests
  /\ UNCHANGED <<pgVars, rVars, sVars, cVars>>

\* the form's useSchema('Task') ends its fetch
FormSchemaLoaded ==
  /\ fSchema = "loading"
  /\ \E result \in {"ready", "error"} : fSchema' = result
  /\ UNCHANGED <<showForm, editingTask, formData, submitting, fRequests>>
  /\ UNCHANGED <<pgVars, rVars, sVars, cVars>>

\* a rendered control calls onChange
handleFieldChange ==
  /\ ~submitting
  /\ fSchema = "ready"
  /\ LET controls == FieldMap(SchemaPayload("Task").fields) IN
     \E i \in 1..Len(controls) :
       \E value \in ControlValues(controls[i].control) :
         formData' = Put(formData, controls[i].name, value)
  /\ UNCHANGED <<showForm, editingTask, submitting, fSchema, fRequests>>
  /\ UNCHANGED <<pgVars, rVars, sVars, cVars>>

\* DynamicForm.handleSubmit up to the await, with TasksPage.handleSubmit as
\* onSubmit(formData): update({ id: editingTask.id, data }) or create(data);
\* data is the record onSubmit was given
handleSubmit ==
  /\ fSchema = "ready"
  /\ ~submitting
  /\ Len(fRequests) < MaxSubmits
  /\ submitting' = TRUE
  /\ fRequests' = Append(fRequests,
       IF editingTask # NullTask
         THEN [kind |-> "update", id |-> editingTask.id, data |-> formData,
               status |-> "pending"]
         ELSE [kind |-> "create", id |-> 0, data |-> formData,
               status |-> "pending"])
  /\ fPromise' = "pending"
  /\ UNCHANGED <<showForm, editingTask, formData, fSchema>>
  /\ UNCHANGED <<rHook, rTable, rForm, tVars, dVars, lVars>>
  /\ UNCHANGED <<pgVars, sVars, cVars>>

\* handleSubmit with setSubmitting(false) at the end of the try block in
\* place of the finally block
SubmitSettled_NoFinally ==
  /\ submitting
  /\ fPromise = "pending"
  /\ \E outcome \in {"resolved", "rejected"} :
       /\ fPromise' = outcome
       /\ submitting' = (outcome = "rejected")
  /\ UNCHANGED <<showForm, editingTask, formData, fSchema, fRequests>>
  /\ UNCHANGED <<rHook, rTable, rForm, tVars, dVars, lVars>>
  /\ UNCHANGED <<pgVars, sVars, cVars>>

\* the rest of DynamicForm.handleSubmit once the awaited promise has
\* settled: the catch block when it rejected, then the finally block.  The
\* promise of TasksPage.handleSubmit resolves (mutate does not throw); a
\* handler that throws gives a rejected one.
SubmitSettled ==
  /\ submitting
  /\ fPromise = "pending"
  /\ \E outcome \in {"resolved", "rejected"} : fPromise' = outcome
  /\ submitting' = FALSE
  /\ UNCHANGED <<showForm, editingTask, formData, fSchema, fRequests>>
  /\ UNCHANGED <<rHook, rTable, rForm, tVars, dVars, lVars>>
  /\ UNCHANGED <<pgVars, sVars, cVars>>

\* a request ends; the onSuccess given to mutate runs for the mutation its
\* observer still tracks and closes the form
MutationSettled ==
  /\ ~submitting
  /\ \E i \in 1..Len(fRequests), status \in {"success", "error"} :
       /\ fRequests[i].status = "pending"
       /\ fRequests' = [fRequests EXCEPT ![i].status = status]
       /\ IF status = "success" /\ i = Latest(fRequests[i].kind)
            THEN /\ showForm' = FALSE
                 /\ editingTask' = IF fRequests[i].kind = "update"
                                     THEN NullTask ELSE editingTask
                 /\ UnmountForm
            ELSE UNCHANGED <<showForm, editingTask, formData, submitting, fSchema>>
  /\ UNCHANGED <<pgVars, rVars, sVars, cVars>>

(***************************************************************************)
(* useCRUD on the React Query cache.  A query key ['model', modelName,     *)
(* {page, pageSize, filters}] is identified by its page; pageSize and      *)
(* filters are fixed.  A mutation remembers the queryKey of the render     *)
(* that called mutate.                                                     *)
(***************************************************************************)
MaxId == 3
NumPages == 2
MaxMutations == 2
PageSize == 1
\* the title the stored records start with, and the titles written
InitialTitle == "A"
Titles == {"B"}

\* retry: 3 for queries, retry: 1 for mutations (QueryProvider)
QueryRetry == 3
MutationRetry == 1

Ids == 1..MaxId
Keys == 1..NumPages

\* query.data === undefined
NoData == [data |-> <<>>, page |-> 0, total_pages |-> 0, total_count |-> 0]
HasData(q) == q.data # NoData

\* the ids of the stored records, in ascending order
ServerIds == { i \in Ids : server.rows[i] # None }
SortedIds == [k \in 1..Cardinality(ServerIds) |-> Nth(ServerIds, k)]

\* GET /api/{modelName}/?page=p&page_size=PageSize
ServerPage(p) ==
  LET ids == SortedIds
      n == Len(ids)
      pages == IF n = 0 THEN 1 ELSE (n + PageSize - 1) \div PageSize
      first == (p - 1) * PageSize + 1
      last == IF p * PageSize < n THEN p * PageSize ELSE n
      shown == IF first > last THEN <<>> ELSE SubSeq(ids, first, last)
  IN [data |-> [k \in 1..Len(shown) |->
                  [id |-> shown[k], title |-> server.rows[shown[k]]]],
      page |-> p, total_pages |-> pages, total_count |-> n]

IdleFetch == [status |-> "idle", body |-> NoData, fc |-> 0, fresh |-> FALSE]
StartedFetch == [status |-> "sent", body |-> NoData, fc |-> 0, fresh |-> TRUE]

\* the part of the QueryClient the hook works on
Client == [query |-> query, fetch |-> fetch]

\* queryClient.cancelQueries({ queryKey }): an in-flight fetch of that key is
\* dropped and the query keeps the state it had before the fetch
cancelQueries(c, key) ==
  [c EXCEPT !.fetch[key] = IdleFetch]

\* queryClient.setQueryData(queryKey, data): the data is stored as a
\* successful result, which also clears the invalidated mark
setQueryData(c, key, data) ==
  [c EXCEPT !.query[key] = [data |-> data, invalidated |-> FALSE]]

\* queryClient.invalidateQueries({ queryKey: ['model', modelName] }): every
\* query of the resource is marked invalidated; the one the hook observes is
\* fetched again, replacing a fetch already in flight
invalidateQueries(c, active) ==
  [query |-> [k \in Keys |-> [c.query[k] EXCEPT !.invalidated = TRUE]],
   fetch |-> [k \in Keys |-> IF k = active THEN StartedFetch ELSE c.fetch[k]]]

\* previousData.data.map((item) => item.id === id ? {...item, ...data} : item)
OptimisticUpdate(previousData, id, data) ==
  [previousData EXCEPT !.data =
     [i \in 1..Len(previousData.data) |->
        IF previousData.data[i].id = id
          THEN [previousData.data[i] EXCEPT !.title = data]
          ELSE previousData.data[i]]]

\* previousData.data.filter((item) => item.id !== id)
RECURSIVE FilterOut(_, _)
FilterOut(items, id) ==
  IF items = <<>> THEN <<>>
  ELSE (IF Head(items).id # id THEN <<Head(items)>> ELSE <<>>)
         \o FilterOut(Tail(items), id)

OptimisticRemove(previousData, id) ==
  [previousData EXCEPT !.data = FilterOut(previousData.data, id),
                       !.total_count = previousData.total_count - 1]

\* onMutate of updateMutation / deleteMutation
onMutate(c, key, optimistic) ==
  LET cancelled == cancelQueries(c, key)
      previousData == cancelled.query[key].data
  IN IF previousData # NoData
       THEN setQueryData(cancelled, key, optimistic)
       ELSE cancelled

\* onError without the rollback
onError_NoRollback(c, key, previousData) == c

\* onError of updateMutation / deleteMutation, with the queryKey of the
\* closure that runs and the context onMutate returned
onError(c, key, previousData) ==
  IF previousData # NoData
    THEN setQueryData(c, key, previousData)
    ELSE c

\* the queryKey in the closure of the callbacks that run when m settles: a
\* mutation runs the callbacks of the options it holds, those of the render
\* that called mutate or, where useMutation hands a pending mutation the
\* options of each later render, those of the latest render
CallbackKeys(m) == {m.key, page}

\* onSettled with invalidateQueries({ queryKey }): the observed key only
onSettled_OnlyKey(c, active) ==
  [query |-> [c.query EXCEPT ![active].invalidated = TRUE],
   fetch |-> [c.fetch EXCEPT ![active] = StartedFetch]]

\* onSettled of updateMutation / deleteMutation
onSettled(c, active) == invalidateQueries(c, active)

\* createMutation without its onSuccess
createOnSuccess_NoInvalidate(c, active) == c

\* onSuccess of createMutation
createOnSuccess(c, active) == invalidateQueries(c, active)

\* a mutation has settled with its callbacks: the fetches in flight began
\* before it
Settle(c) ==
  [c EXCEPT !.fetch = [k \in Keys |-> [c.fetch[k] EXCEPT !.fresh = FALSE]]]

\* the task list is mounted on page 1 with an empty cache: its first fetch
\* is on the way
InitCRUD ==
  /\ server = [rows |-> [i \in Ids |-> IF i <= 2 THEN InitialTitle ELSE None], nextId |-> 3]
  /\ page = 1
  /\ query = [k \in Keys |-> [data |-> NoData, invalidated |-> FALSE]]
  /\ fetch = [k \in Keys |-> IF k = 1 THEN StartedFetch ELSE IdleFetch]
  /\ muts = {}
  /\ cIssued = 0
  /\ cLast = [type |-> None, n |-> 0]

Apply(c) ==
  /\ query' = c.query
  /\ fetch' = c.fetch

\* the backend answers a list request with the page as it is now
ServerHandleFetch ==
  /\ \E k \in Keys :
       /\ fetch[k].status = "sent"
       /\ fetch' = [fetch EXCEPT ![k].status = "ok", ![k].body = ServerPage(k)]
  /\ UNCHANGED <<server, page, query, muts, cIssued, cLast>>
  /\ UNCHANGED <<pgVars, rVars, sVars, fVars>>

\* the queryFn promise resolves: the result is stored
FetchResolve ==
  /\ \E k \in Keys :
       /\ fetch[k].status = "ok"
       /\ query' = [query EXCEPT ![k] = [data |-> fetch[k].body,
                                         invalidated |-> FALSE]]
       /\ fetch' = [fetch EXCEPT ![k] = IdleFetch]
       /\ cLast' = [type |-> "fetched", n |-> k, fresh |-> fetch[k].fresh]
  /\ UNCHANGED <<server, page, muts, cIssued>>
  /\ UNCHANGED <<pgVars, rVars, sVars, fVars>>

\* the queryFn promise rejects (no answer, or a non-ok status): an observed
\* query is fetched again up to QueryRetry times, then the query goes to
\* its error state and keeps its data
FetchReject ==
  /\ \E k \in Keys :
       /\ fetch[k].status = "sent"
       /\ IF fetch[k].fc < QueryRetry /\ k = page
            THEN fetch' = [fetch EXCEPT ![k].fc = @ + 1]
            ELSE fetch' = [fetch EXCEPT ![k] = IdleFetch]
       /\ cLast' = [type |-> "fetchFailed", n |-> k]
  /\ UNCHANGED <<server, page, query, muts, cIssued>>
  /\ UNCHANGED <<pgVars, rVars, sVars, fVars>>

\* setCurrentPage from a Pagination button: the control is rendered while
\* the cached page reports more than one page; the observer moves to the new
\* key and fetches it unless fresh data is cached or a fetch is in flight
SetPage ==
  /\ HasData(query[page])
  /\ query[page].data.total_pages > 1
  /\ \E p \in Keys \ {page} :
       /\ p <= query[page].data.total_pages
       /\ page' = p
       /\ fetch' = IF fetch[p].status = "idle"
                      /\ (~HasData(query[p]) \/ query[p].invalidated)
                    THEN [fetch EXCEPT ![p] = StartedFetch]
                    ELSE fetch
  /\ cLast' = [type |-> "page", n |-> page']
  /\ UNCHANGED <<server, query, muts, cIssued>>
  /\ UNCHANGED <<pgVars, rVars, sVars, fVars>>

NewMutation(kind, id, data, previousData) ==
  [n |-> cIssued + 1, kind |-> kind, id |-> id, data |-> data, key |-> page,
   previousData |-> previousData, fc |-> 0, resp |-> None]

\* create(data): no onMutate, the POST is sent
Create ==
  /\ cIssued < MaxMutations
  /\ \E data \in Titles :
       /\ muts' = muts \cup {NewMutation("create", 0, data, NoData)}
       /\ cLast' = [type |-> "create", n |-> cIssued + 1]
  /\ cIssued' = cIssued + 1
  /\ UNCHANGED <<server, page, query, fetch>>
  /\ UNCHANGED <<pgVars, rVars, sVars, fVars>>

\* update({ id, data }): onMutate, then the PUT is sent
Update ==
  /\ cIssued < MaxMutations
  /\ \E id \in Ids, data \in Titles :
       LET previousData == query[page].data IN
       /\ Apply(onMutate(Client, page, OptimisticUpdate(previousData, id, data)))
       /\ muts' = muts \cup {NewMutation("update", id, data, previousData)}
       /\ cLast' = [type |-> "update", n |-> cIssued + 1]
  /\ cIssued' = cIssued + 1
  /\ UNCHANGED <<server, page>>
  /\ UNCHANGED <<pgVars, rVars, sVars, fVars>>

\* remove(id): onMutate, then the DELETE is sent
Remove ==
  /\ cIssued < MaxMutations
  /\ \E id \in Ids :
       LET previousData == query[page].data IN
       /\ Apply(onMutate(Client, page, OptimisticRemove(previousData, id)))
       /\ muts' = muts \cup {NewMutation("remove", id, None, previousData)}
       /\ cLast' = [type |-> "remove", n |-> cIssued + 1]
  /\ cIssued' = cIssued + 1
  /\ UNCHANGED <<server, page>>
  /\ UNCHANGED <<pgVars, rVars, sVars, fVars>>

\* the rows after the backend has carried out mutation m
Carried(m) ==
  CASE m.kind = "create" ->
         [rows |-> [server.rows EXCEPT ![server.nextId] = m.data],
          nextId |-> server.nextId + 1]
    [] m.kind = "update" -> [server EXCEPT !.rows[m.id] = m.data]
    [] m.kind = "remove" -> [server EXCEPT !.rows[m.id] = None]

\* the backend can carry out m: the record exists (update, remove)
CanCarry(m) ==
  IF m.kind = "create" THEN server.nextId <= MaxId ELSE server.rows[m.id] # None

\* the backend answers a POST, PUT or DELETE: it carries the request out and
\* answers 2xx, or answers with an error and changes nothing
ServerHandleMutation ==
  /\ \E m \in muts, ok \in BOOLEAN :
       /\ m.resp = None
       /\ ok => CanCarry(m)
       /\ server' = IF ok THEN Carried(m) ELSE server
       /\ muts' = (muts \ {m}) \cup {[m EXCEPT !.resp = IF ok THEN "ok" ELSE "err"]}
  /\ UNCHANGED <<page, query, fetch, cIssued, cLast>>
  /\ UNCHANGED <<pgVars, rVars, sVars, fVars>>

\* the mutationFn promise of m ends: a first failure is retried; otherwise
\* the mutation settles and its callbacks run
MutationResolve ==
  /\ \E m \in muts :
       /\ m.resp # None
       /\ IF m.resp = "err" /\ m.fc < MutationRetry
            THEN /\ muts' = (muts \ {m}) \cup {[m EXCEPT !.resp = None, !.fc = @ + 1]}
                 /\ cLast' = [type |-> "retry", n |-> m.n]
                 /\ UNCHANGED <<query, fetch>>
            ELSE /\ muts' = muts \ {m}
                 /\ \E key \in CallbackKeys(m) :
                      /\ cLast' = [type |-> m.resp, n |-> m.n, kind |-> m.kind,
                                    id |-> m.id, key |-> m.key,
                                    previousData |-> m.previousData,
                                    rkey |-> IF m.kind # "create" /\ m.resp = "err"
                                               THEN key ELSE m.key]
                      /\ CASE m.kind = "create" /\ m.resp = "ok" ->
                                Apply(createOnSuccess(Settle(Client), page))
                           [] m.kind = "create" /\ m.resp = "err" ->
                                Apply(Client)
                           [] m.kind # "create" /\ m.resp = "ok" ->
                                Apply(onSettled(Settle(Client), page))
                           [] m.kind # "create" /\ m.resp = "err" ->
                                Apply(onSettled(onError(Settle(Client), key,
                                                        m.previousData), page))
  /\ UNCHANGED <<server, page, cIssued>>
  /\ UNCHANGED <<pgVars, rVars, sVars, fVars>>

CRUDIdle ==
  /\ server = [rows |-> [i \in Ids |-> None], nextId |-> 1]
  /\ page = 1
  /\ query = [k \in Keys |-> [data |-> NoData, invalidated |-> FALSE]]
  /\ fetch = [k \in Keys |-> IdleFetch]
  /\ muts = {}
  /\ cIssued = 0
  /\ cLast = [type |-> None, n |-> 0]

(***************************************************************************)
(* TaskList (components/TaskList.tsx): the list keeps its tasks in a state  *)
(* variable; each handler awaits its request and then writes a list         *)
(* computed from the tasks of the render the handler was created in         *)
(***************************************************************************)
MaxOps == 3

ListTitles == {"B"}

\* the tasks the backend starts with, as taskAPI.getAll() lists them
InitialTasks ==
  << [id |-> 1, title |-> "A", completed |-> FALSE],
     [id |-> 2, title |-> "A", completed |-> FALSE] >>

\* editingTaskId = null
NotEditing == 0

\* tasks.map(t => t.id === id ? updatedTask : t)
MapTask(tasks, id, updatedTask) ==
  [i \in 1..Len(tasks) |-> IF tasks[i].id = id THEN updatedTask ELSE tasks[i]]

\* tasks.filter(t => t.id !== id)
FilterTask(tasks, id) == FilterOut(tasks, id)

\* the backend has a task with this id
Stored(id) == \E i \in 1..Len(lServer) : lServer[i].id = id

\* the stored task with this id
StoredTask(id) == lServer[CHOOSE i \in 1..Len(lServer) : lServer[i].id = id]

\* a request that has been sent: the handler is suspended at its await and
\* holds the tasks of the render it was created in
NewOp(kind, id, patch) ==
  [n |-> lIssued + 1, kind |-> kind, id |-> id, patch |-> patch,
   tasks |-> lTasks, status |-> "sent", result |-> <<>>]

\* useState initial values with the mount effect's fetchTasks() under way
InitList ==
  /\ lTasks = <<>>
  /\ lLoading = TRUE
  /\ lError = None
  /\ lEditing = NotEditing
  /\ lServer = InitialTasks
  /\ lOps = {[n |-> 1, kind |-> "fetch", id |-> 0, patch |-> [k \in {} |-> None],
               tasks |-> <<>>, status |-> "sent", result |-> <<>>]}
  /\ lIssued = 1
  /\ lFailed = FALSE

TaskListIdle ==
  /\ lTasks = <<>>
  /\ lLoading = TRUE
  /\ lError = None
  /\ lEditing = NotEditing
  /\ lServer = <<>>
  /\ lOps = {}
  /\ lIssued = 0
  /\ lFailed = FALSE

\* the rows are rendered: !loading && !error && tasks.length > 0
RowsRendered == ~lLoading /\ lError = None /\ Len(lTasks) > 0

\* the "Try Again" button of the error card: fetchTasks()
fetchTasks ==
  /\ lError # None
  /\ lIssued < MaxOps
  /\ lLoading' = TRUE
  /\ lError' = None
  /\ lOps' = lOps \cup {NewOp("fetch", 0, [k \in {} |-> None])}
  /\ lIssued' = lIssued + 1
  /\ UNCHANGED <<lTasks, lEditing, lServer, lFailed>>
  /\ UNCHANGED <<rHook, rTable, rForm, tVars, dVars, fPromise>>
  /\ UNCHANGED <<pgVars, sVars, fVars, cVars>>

\* handleToggle(task) up to its await, from a row in display mode
handleToggle ==
  /\ RowsRendered
  /\ lIssued < MaxOps
  /\ \E i \in 1..Len(lTasks) :
       /\ lTasks[i].id # lEditing
       /\ lOps' = lOps \cup {NewOp("toggle", lTasks[i].id,
                                   [completed |-> ~lTasks[i].completed])}
  /\ lIssued' = lIssued + 1
  /\ UNCHANGED <<lTasks, lLoading, lError, lEditing, lServer, lFailed>>
  /\ UNCHANGED <<rHook, rTable, rForm, tVars, dVars, fPromise>>
  /\ UNCHANGED <<pgVars, sVars, fVars, cVars>>

\* handleEdit(task), from a row in display mode
handleListEdit ==
  /\ RowsRendered
  /\ \E i \in 1..Len(lTasks) :
       /\ lTasks[i].id # lEditing
       /\ lEditing' = lTasks[i].id
  /\ UNCHANGED <<lTasks, lLoading, lError, lServer, lOps, lIssued, lFailed>>
  /\ UNCHANGED <<rHook, rTable, rForm, tVars, dVars, fPromise>>
  /\ UNCHANGED <<pgVars, sVars, fVars, cVars>>

\* handleCancelEdit(), from the row in edit mode
handleCancelEdit ==
  /\ RowsRendered
  /\ \E i \in 1..Len(lTasks) : lTasks[i].id = lEditing
  /\ lEditing' = NotEditing
  /\ UNCHANGED <<lTasks, lLoading, lError, lServer, lOps, lIssued, lFailed>>
  /\ UNCHANGED <<rHook, rTable, rForm, tVars, dVars, fPromise>>
  /\ UNCHANGED <<pgVars, sVars, fVars, cVars>>

\* handleSave(id, title, description) up to its await, from the row in edit
\* mode
handleSave ==
  /\ RowsRendered
  /\ lIssued < MaxOps
  /\ \E i \in 1..Len(lTasks), title \in ListTitles :
       /\ lTasks[i].id = lEditing
       /\ lOps' = lOps \cup {NewOp("save", lTasks[i].id, [title |-> title])}
  /\ lIssued' = lIssued + 1
  /\ UNCHANGED <<lTasks, lLoading, lError, lEditing, lServer, lFailed>>
  /\ UNCHANGED <<rHook, rTable, rForm, tVars, dVars, fPromise>>
  /\ UNCHANGED <<pgVars, sVars, fVars, cVars>>

\* handleDelete(id) up to its await, from a row in display mode
handleDelete ==
  /\ RowsRendered
  /\ lIssued < MaxOps
  /\ \E i \in 1..Len(lTasks) :
       /\ lTasks[i].id # lEditing
       /\ lOps' = lOps \cup {NewOp("delete", lTasks[i].id, [k \in {} |-> None])}
  /\ lIssued' = lIssued + 1
  /\ UNCHANGED <<lTasks, lLoading, lError, lEditing, lServer, lFailed>>
  /\ UNCHANGED <<rHook, rTable, rForm, tVars, dVars, fPromise>>
  /\ UNCHANGED <<pgVars, sVars, fVars, cVars>>

\* the task with the fields of the patch written
Patched(task, patch) ==
  [k \in DOMAIN task |-> IF k \in DOMAIN patch THEN patch[k] ELSE task[k]]

\* the backend answers a request: it carries it out and answers with the
\* list (getAll), the updated task (update) or nothing (delete), or it
\* answers with an error and changes nothing; a task that is not stored
\* cannot be updated or deleted
ListServerHandle ==
  /\ \E op \in lOps, ok \in BOOLEAN :
       /\ op.status = "sent"
       /\ (ok /\ op.kind # "fetch") => Stored(op.id)
       /\ IF ~ok
            THEN /\ lServer' = lServer
                 /\ lOps' = (lOps \ {op}) \cup {[op EXCEPT !.status = "err"]}
            ELSE CASE op.kind = "fetch" ->
                        /\ lServer' = lServer
                        /\ lOps' = (lOps \ {op}) \cup
                             {[op EXCEPT !.status = "ok", !.result = lServer]}
                   [] op.kind \in {"toggle", "save"} ->
                        LET updatedTask == Patched(StoredTask(op.id), op.patch) IN
                        /\ lServer' = MapTask(lServer, op.id, updatedTask)
                        /\ lOps' = (lOps \ {op}) \cup
                             {[op EXCEPT !.status = "ok", !.result = <<updatedTask>>]}
                   [] op.kind = "delete" ->
                        /\ lServer' = FilterTask(lServer, op.id)
                        /\ lOps' = (lOps \ {op}) \cup {[op EXCEPT !.status = "ok"]}
  /\ UNCHANGED <<lTasks, lLoading, lError, lEditing, lIssued, lFailed>>
  /\ UNCHANGED <<rHook, rTable, rForm, tVars, dVars, fPromise>>
  /\ UNCHANGED <<pgVars, sVars, fVars, cVars>>

\* the awaited request of a handler has ended and the rest of the handler
\* runs: setTasks from the tasks it holds, or its catch block; handleSave
\* has no catch block and a failed save changes nothing
ListOpSettled ==
  /\ \E op \in lOps :
       /\ op.status # "sent"
       /\ lOps' = lOps \ {op}
       /\ lFailed' = (lFailed \/ op.status = "err")
       /\ CASE op.kind = "fetch" /\ op.status = "ok" ->
                 /\ lTasks' = op.result
                 /\ lLoading' = FALSE
                 /\ UNCHANGED <<lError, lEditing>>
            [] op.kind = "fetch" /\ op.status = "err" ->
                 /\ lError' = "Failed to fetch tasks"
                 /\ lLoading' = FALSE
                 /\ UNCHANGED <<lTasks, lEditing>>
            [] op.kind = "toggle" /\ op.status = "ok" ->
                 /\ lTasks' = MapTask(op.tasks, op.id, op.result[1])
                 /\ UNCHANGED <<lLoading, lError, lEditing>>
            [] op.kind = "toggle" /\ op.status = "err" ->
                 /\ lError' = "Failed to update task"
                 /\ UNCHANGED <<lTasks, lLoading, lEditing>>
            [] op.kind = "save" /\ op.status = "ok" ->
                 /\ lTasks' = MapTask(op.tasks, op.id, op.result[1])
                 /\ lEditing' = NotEditing
                 /\ UNCHANGED <<lLoading, lError>>
            [] op.kind = "save" /\ op.status = "err" ->
                 UNCHANGED <<lTasks, lLoading, lError, lEditing>>
            [] op.kind = "delete" /\ op.status = "ok" ->
                 /\ lTasks' = FilterTask(op.tasks, op.id)
                 /\ UNCHANGED <<lLoading, lError, lEditing>>
            [] op.kind = "delete" /\ op.status = "err" ->
                 /\ lError' = "Failed to delete task"
                 /\ UNCHANGED <<lTasks, lLoading, lEditing>>
  /\ UNCHANGED <<lServer, lIssued>>
  /\ UNCHANGED <<rHook, rTable, rForm, tVars, dVars, fPromise>>
  /\ UNCHANGED <<pgVars, sVars, fVars, cVars>>

(***************************************************************************)
(* Specifications, one per component                                       *)
(***************************************************************************)
NextPagination == ClickPrevious \/ ClickNext \/ ClickPage \/ SetDisabled

InitSpecPagination == InitPagination /\ RenderIdle /\ SchemaIdle /\ InitForm /\ CRUDIdle /\ TaskListIdle

SpecPagination == InitSpecPagination /\ [][NextPagination]_vars

NextRender == RenderTable \/ RenderForm

InitSpecRender == InitRender /\ PaginationIdle /\ SchemaIdle /\ InitForm /\ CRUDIdle /\ TaskListIdle

SpecRender == InitSpecRender /\ [][NextRender]_vars

NextTable == TableProps \/ TableHook \/ ClickEdit \/ ClickDelete

InitSpecTable == InitTable /\ PaginationIdle /\ SchemaIdle /\ InitForm /\ CRUDIdle /\ TaskListIdle

SpecTable == InitSpecTable /\ [][NextTable]_vars

NextField == RenderForm \/ FieldChange

InitSpecField == InitField /\ PaginationIdle /\ SchemaIdle /\ InitForm /\ CRUDIdle /\ TaskListIdle

SpecField == InitSpecField /\ [][NextField]_vars

NextSchema == Mount \/ ChangeModelName \/ Refetch \/ ResolveSchema

InitSpecSchema == InitSchema /\ PaginationIdle /\ RenderIdle /\ InitForm /\ CRUDIdle /\ TaskListIdle

SpecSchema == InitSpecSchema /\ [][NextSchema]_vars

NextForm ==
  \/ handleCreateNew \/ handleEdit \/ handleCancel \/ FormSchemaLoaded
  \/ handleFieldChange \/ handleSubmit \/ SubmitSettled \/ MutationSettled

InitSpecForm == InitForm /\ PaginationIdle /\ RenderIdle /\ SchemaIdle /\ CRUDIdle /\ TaskListIdle

SpecForm == InitSpecForm /\ [][NextForm]_vars

\* the continuation of an await runs once the awaited promise has settled
SpecFormLive == SpecForm /\ WF_vars(SubmitSettled)

NextCRUD ==
  \/ ServerHandleFetch \/ FetchResolve \/ FetchReject \/ SetPage
  \/ Create \/ Update \/ Remove \/ ServerHandleMutation \/ MutationResolve

InitSpecCRUD == InitCRUD /\ PaginationIdle /\ RenderIdle /\ SchemaIdle /\ InitForm /\ TaskListIdle

SpecCRUD == InitSpecCRUD /\ [][NextCRUD]_vars

NextList ==
  \/ fetchTasks \/ handleToggle \/ handleListEdit \/ handleCancelEdit
  \/ handleSave \/ handleDelete \/ ListServerHandle \/ ListOpSettled

InitSpecList ==
  InitList /\ PaginationIdle /\ RenderIdle /\ SchemaIdle /\ InitForm /\ CRUDIdle

SpecList == InitSpecList /\ [][NextList]_vars

(***************************************************************************)
(* Properties                                                              *)
(***************************************************************************)

\* a synthetic excluded field: the primary key / auto identifier or an auto
\* timestamp
Excluded(f) ==
  \/ f.name \in {"id", "created_at", "updated_at"}
  \/ f.type \in {"AutoField", "BigAutoField"}

\* the names of the fields of fs that are not excluded, in schema order
KeptNames(fs) ==
  LET kept == { i \in 1..Len(fs) : ~Excluded(fs[i]) }
  IN [k \in 1..Cardinality(kept) |-> fs[Nth(kept, k)].name]

ExcludedCount(fs) == Cardinality({ i \in 1..Len(fs) : Excluded(fs[i]) })

\* the mutation the last call of create, update or remove started
Issued(kind) == { m \in muts : cLast.type = kind /\ m.n = cLast.n }

\* the last event is the settlement of a mutation of that kind and outcome
Settled(kind, outcome) == cLast.type = outcome /\ cLast.kind = kind

\* the positions of the records of a page whose id is not id
Others(items, id) == { i \in 1..Len(items) : items[i].id # id }

\* C1: update(id, data) with a cached page for the key rewrites the cached page
\* so that the record with that id carries the new data before the PUT
\* resolves; when the PUT is rejected the cached page of that key is again
\* exactly the snapshot taken before the optimistic write.
C1_OptimisticUpdateRollback ==
  /\ \A m \in Issued("update") :
       (m.previousData # NoData /\ m.resp = None) =>
         LET old == m.previousData
             new == query[m.key].data
         IN /\ [new EXCEPT !.data = <<>>] = [old EXCEPT !.data = <<>>]
            /\ Len(new.data) = Len(old.data)
            /\ \A i \in 1..Len(old.data) :
                 /\ new.data[i].id = old.data[i].id
                 /\ new.data[i].title =
                      IF old.data[i].id = m.id THEN m.data ELSE old.data[i].title
  /\ (Settled("update", "err") /\ cLast.previousData # NoData) =>
       query[cLast.key].data = cLast.previousData

\* C2: remove(id) with a cached page for the key rewrites the cached page with
\* the matching record removed and total_count decremented by one before the
\* DELETE resolves; when the DELETE is rejected the cached page of that key is
\* again exactly the snapshot.
C2_OptimisticRemoveRollback ==
  /\ \A m \in Issued("remove") :
       (m.previousData # NoData /\ m.resp = None) =>
         LET old == m.previousData
             new == query[m.key].data
             kept == Others(old.data, m.id)
         IN /\ new.total_count = old.total_count - 1
            /\ new.page = old.page /\ new.total_pages = old.total_pages
            /\ Len(new.data) = Cardinality(kept)
            /\ \A k \in 1..Len(new.data) : new.data[k] = old.data[Nth(kept, k)]
  /\ (Settled("remove", "err") /\ cLast.previousData # NoData) =>
       query[cLast.key].data = cLast.previousData

\* C3: every update and remove mutation, succeeded or failed, ends by
\* invalidating all cached list results of the resource and fetching the
\* observed one again; and when a read that began after the last settlement
\* completes with no mutation outstanding, the cached page equals the
\* server's page.
C3_SettledInvalidatesAll ==
  /\ [][ \A m \in muts :
           (m.kind \in {"update", "remove"} /\ \A x \in muts' : x.n # m.n) =>
             /\ \A k \in Keys : HasData(query'[k]) => query'[k].invalidated
             /\ fetch'[page] = StartedFetch
       ]_vars
  /\ []((cLast.type = "fetched" /\ cLast.fresh /\ muts = {}) =>
          query[cLast.n].data = ServerPage(cLast.n))

\* a failed mutation has settled while both pages were cached
C3_Witness ==
  /\ Settled("remove", "err")
  /\ \A k \in Keys : HasData(query[k]) /\ query[k].invalidated

\* a step of a create mutation: it is sent, answered, retried or settled
CreateStep ==
  \E m \in (muts \ muts') \cup (muts' \ muts) : m.kind = "create"

\* a create mutation settles in this step with that answer
CreateSettles(outcome) ==
  \E m \in muts :
    /\ m.kind = "create"
    /\ m.resp = outcome
    /\ \A x \in muts' : x.n # m.n

\* C4: create writes nothing to the cache; its success invalidates every
\* cached list result of the resource and forces a fresh read of the observed
\* one; its failure leaves the cache unchanged.
C4_CreateInvalidatesOnSuccess ==
  [][ /\ CreateStep => \A k \in Keys : query'[k].data = query[k].data
      /\ CreateSettles("ok") =>
           /\ \A k \in Keys : query'[k].invalidated
           /\ fetch'[page] = StartedFetch
      /\ CreateSettles("err") => query' = query /\ fetch' = fetch
    ]_vars

\* a create has succeeded while both pages were cached
C4_Witness ==
  /\ Settled("create", "ok")
  /\ \A k \in Keys : HasData(query[k]) /\ query[k].invalidated
  /\ fetch[page] = StartedFetch

\* C5: the record DynamicForm passes to onSubmit never contains the synthetic
\* excluded fields id, created_at and updated_at, for every sequence of form
\* operations.
C5_SubmittedWithoutExcluded ==
  \A i \in 1..Len(fRequests) :
    DOMAIN fRequests[i].data \cap {"id", "created_at", "updated_at"} = {}

\* C6: a schema fetch that ends in an HTTP non-success response or a network
\* failure leaves the hook with a non-null error, loading = false and
\* schema = null, for every fetch in a sequence.
C6_FailedFetchLeavesNullSchema ==
  sLast.type \in {"http", "network", "thrown"} =>
    /\ error # None
    /\ loading = FALSE
    /\ IsNull(schema)

\* C7: useSchema begins exactly one fetch on mount, one per change of the
\* model name and one per refetch call; a started fetch has set loading = true
\* and cleared the error; a successful response has stored the parsed schema
\* and set loading = false.
C7_OneFetchPerTrigger ==
  LET triggers == (IF sMounted THEN 1 ELSE 0) + sCalls.changes + sCalls.refetches
  IN
  /\ sCalls.fetches = triggers
  /\ sCalls.requests = (IF apiUrl THEN triggers ELSE 0)
  /\ sLast.type = "start" =>
       /\ loading = TRUE
       /\ error = None
       /\ [n |-> sLast.n, model |-> modelName] \in sInFlight
  /\ sLast.type = "ok" =>
       /\ schema = SchemaPayload(sLast.model)
       /\ loading = FALSE

\* a fetch started by a model-name change after an earlier failure
C7_Witness ==
  /\ sLast.type = "start"
  /\ sCalls.changes = 1
  /\ sCalls.refetches = 1
  /\ sCalls.requests = 3
  /\ ~IsNull(schema)

\* C8: the header of DynamicTable is the identifier column, one column per
\* field that is not a synthetic excluded field (the same fields the form
\* shows) in schema order, and an actions column iff onEdit or onDelete is
\* given: N - K + 1 (+ 1) columns.
C8_TableColumns ==
  rTable.state = "table" =>
    LET fs == rHook.schema.fields
        names == KeptNames(fs)
        acts == IF rTable.props.onEdit \/ rTable.props.onDelete THEN 1 ELSE 0
    IN
    /\ Len(rTable.header) = Len(fs) - ExcludedCount(fs) + 1 + acts
    /\ rTable.header[1] = IdColumn
    /\ \A k \in 1..Len(names) :
         rTable.header[k + 1] = [kind |-> "field", name |-> names[k]]
    /\ acts = 1 <=> rTable.header[Len(rTable.header)] = ActionsColumn

\* C9: with the schema loaded without error DynamicForm renders exactly one
\* control per field that is not excluded, in schema order, and none for an
\* excluded field (N fields, K excluded: N - K controls).
C9_FormControls ==
  (rForm.state # None /\ ~rHook.loading /\ rHook.error = None
     /\ ~IsNull(rHook.schema)) =>
    LET fs == rHook.schema.fields
        names == KeptNames(fs)
    IN
    /\ rForm.state = "form"
    /\ Len(rForm.controls) = Len(fs) - ExcludedCount(fs)
    /\ \A k \in 1..Len(rForm.controls) : rForm.controls[k].name = names[k]

\* a rendered form of a schema with three fields, two of them excluded, one
\* by its type alone and one by its name alone
C9_Witness ==
  /\ rForm.state = "form"
  /\ Len(rHook.schema.fields) = 3
  /\ Len(rForm.controls) = 1
  /\ \E i, j \in 1..3 :
       /\ rHook.schema.fields[i].name = "uid"
       /\ rHook.schema.fields[j].name = "created_at"

\* C10: the page sequence of Pagination for (currentPage, totalPages).
C10_PageSequence ==
  LET cp == currentPage
      tp == totalPages
  IN
  /\ tp <= 1 => ~pgView.shown /\ pgView.pages = <<>>
  /\ (tp > 1 /\ tp <= 5) => pgView.pages = [i \in 1..tp |-> i]
  /\ (tp > 5 /\ cp <= 3) => pgView.pages = <<1, 2, 3, 4, Ellipsis, tp>>
  /\ (tp > 5 /\ cp > 3 /\ cp >= tp - 2) =>
       pgView.pages = <<1, Ellipsis, tp - 3, tp - 2, tp - 1, tp>>
  /\ (tp > 5 /\ cp > 3 /\ cp < tp - 2) =>
       pgView.pages = <<1, Ellipsis, cp - 1, cp, cp + 1, Ellipsis, tp>>

\* the middle case, reached by a click
C10_Witness ==
  /\ totalPages = 10
  /\ pgEmitted = 5
  /\ pgView.pages = <<1, Ellipsis, 4, 5, 6, Ellipsis, 10>>

\* a click on a row's Delete button, and on a row's Edit button, in this step
DeleteClicked == tLast' # tLast /\ tLast'.type = "delete"
EditClicked == tLast' # tLast /\ tLast'.type = "edit"

\* C11: in the table and in the card layout a click on a row's delete action
\* calls onDelete(item.id) only when the confirmation was answered
\* positively, exactly once and with the id of that row; a cancelled
\* confirmation calls nothing and changes nothing; a click on edit calls
\* onEdit(item) with the item of that row; no handler is called otherwise.
C11_DeleteAfterConfirm ==
  [][ /\ (DeleteClicked /\ tLast'.confirmed) =>
           /\ Len(tCalls') = Len(tCalls) + 1
           /\ SubSeq(tCalls', 1, Len(tCalls)) = tCalls
           /\ tCalls'[Len(tCalls')].handler = "onDelete"
           /\ tCalls'[Len(tCalls')].id = tProps.data[tLast'.row].id
      /\ (DeleteClicked /\ ~tLast'.confirmed) =>
           UNCHANGED <<tCalls, tProps, rHook, rTable>>
      /\ EditClicked =>
           /\ Len(tCalls') = Len(tCalls) + 1
           /\ SubSeq(tCalls', 1, Len(tCalls)) = tCalls
           /\ tCalls'[Len(tCalls')].handler = "onEdit"
           /\ tCalls'[Len(tCalls')].item = tProps.data[tLast'.row]
      /\ tCalls' # tCalls =>
           (DeleteClicked /\ tLast'.confirmed) \/ EditClicked
    ]_vars

\* in the card layout the deletion of the second row was confirmed:
\* onDelete was called once, with the id of that row
C11_Witness ==
  /\ rTable.state = "cards"
  /\ tLast.type = "delete" /\ tLast.confirmed /\ tLast.row = 2
  /\ Len(tCalls) = 1
  /\ tCalls[1].handler = "onDelete"
  /\ tCalls[1].id = tProps.data[2].id

\* C15: DynamicTable shows exactly one of four states, in this priority: the
\* skeleton when the data or the schema is loading; else the inline error and
\* no table when there is a schema error or no schema; else the empty-state
\* message with the lower-cased plural verbose name when data is empty; else
\* the populated table.
C15_TableStatePriority ==
  rTable.state # None =>
    IF tProps.loading \/ rHook.loading
      THEN rTable.state = "skeleton"
      ELSE IF rHook.error # None \/ IsNull(rHook.schema)
        THEN /\ rTable.state = "error"
             /\ rTable.header = <<>> /\ rTable.cardFields = <<>>
        ELSE IF Len(tProps.data) = 0
          THEN /\ rTable.state = "empty"
               /\ rTable.message.name = <<"t", "a", "s", "k", "s">>
          ELSE /\ rTable.state = IF tProps.isMobile THEN "cards" ELSE "table"
               /\ tProps.isMobile \/ rTable.header # <<>>

\* the schema fetch failed and the data is empty: the error is shown, not the
\* empty state
C15_Witness ==
  /\ ~tProps.loading /\ ~rHook.loading
  /\ rHook.error # None
  /\ Len(tProps.data) = 0
  /\ rTable.state = "error"

IntegerTypes == {"IntegerField", "BigIntegerField", "SmallIntegerField"}
DecimalTypes == {"DecimalField", "FloatField"}

\* the text typed into the input of the field, when the last event was one
Typed == dInput # NoInput /\ "value" \in DOMAIN dInput

\* C12: for integer and decimal fields an input that does not parse as a
\* number sets the draft value of the field to the empty string; the draft
\* value of a numeric field is never NaN, whatever the inputs were; every
\* input gives the handler a value (it does not throw).
C12_NumericDraftNeverNaN ==
  dField.type \in IntegerTypes \cup DecimalTypes =>
    /\ dValue # NaN
    /\ dValue.kind \in {"undefined", "string", "number"}
    /\ (Typed /\ dField.type \in IntegerTypes /\ parseInt(dInput.value) = NaN) =>
         dValue = Str(<<>>)
    /\ (Typed /\ dField.type \in DecimalTypes /\ parseFloat(dInput.value) = NaN) =>
         dValue = Str(<<>>)

\* "-a" was typed into a decimal field: the draft value is the empty string
C12_Witness ==
  /\ dField.type = "DecimalField"
  /\ dField.choices = <<>>
  /\ Typed
  /\ dInput.value = <<"-", "a">>
  /\ dValue = Str(<<>>)

\* the control each recognised type has; every other type has the
\* short-text input
TypeControl(type) ==
  CASE type = "TextField" -> "textarea"
    [] type = "BooleanField" -> "checkbox"
    [] type \in IntegerTypes -> "number"
    [] type \in DecimalTypes -> "decimal"
    [] type = "DateField" -> "date"
    [] type = "DateTimeField" -> "datetime-local"
    [] type = "EmailField" -> "email"
    [] type = "URLField" -> "url"
    [] OTHER -> "text"

\* C13: a non-excluded field with a non-empty choices list is rendered as a
\* selection control whose options are the choices, whatever its type; with
\* choices absent or empty the control follows the type, the short-text
\* input for every unrecognised type.
C13_ChoicesGiveSelect ==
  rForm.state = "form" =>
    /\ Len(rForm.controls) = 1
    /\ rForm.controls[1].name = dField.name
    /\ IF Len(dField.choices) > 0
         THEN /\ rForm.controls[1].control = "select"
              /\ Cardinality(ControlEvents(dField)) = Len(dField.choices)
              /\ dInput # NoInput =>
                   \E i \in 1..Len(dField.choices) :
                     dValue = Str(<<dField.choices[i]>>)
         ELSE rForm.controls[1].control = TypeControl(dField.type)

\* a BooleanField with choices is a select, and its second option was chosen
C13_Witness ==
  /\ dField.type = "BooleanField"
  /\ rForm.state = "form"
  /\ rForm.controls[1].control = "select"
  /\ dValue = Str(<<"high">>)

\* C14: a submission sets the submitting flag and calls onSubmit with the
\* current draft; the flag is true all the time the promise of onSubmit is
\* pending; when the promise settles, resolved or rejected, the flag is
\* cleared; and the flag always eventually returns to false.
C14_SubmittingFlag ==
  /\ [](fPromise = "pending" => submitting)
  /\ [][ /\ (fPromise # "pending" /\ fPromise' = "pending") =>
              /\ submitting'
              /\ Len(fRequests') = Len(fRequests) + 1
              /\ fRequests'[Len(fRequests')].data = formData
         /\ (fPromise = "pending" /\ fPromise' # "pending") =>
              /\ fPromise' \in {"resolved", "rejected"}
              /\ ~submitting'
       ]_vars
  /\ (submitting ~> ~submitting)

\* a submission whose onSubmit rejected: the flag is false again
C14_Witness ==
  /\ fPromise = "rejected"
  /\ ~submitting
  /\ Len(fRequests) > 0

\* the network attempts made so far for a mutation: the first one and one
\* for each failure that was followed by a retry
Attempts(m) == m.fc + 1

\* C16: one call of create, update or remove makes at most one network
\* attempt: a failed request is not sent again, the failure settles the
\* mutation.
C16_AtMostOneAttempt ==
  \A m \in muts : Attempts(m) <= 1

\* the fetches whose response is applied in this step
Responded == sInFlight \ sInFlight'

\* C17: useSchema cancels no fetch; the response of each fetch in flight is
\* applied when it resolves, in whatever order: a successful one replaces the
\* exposed schema by its payload, a failed one and the start of a fetch leave
\* the schema as it is.  So once all have resolved the schema is the payload
\* of the successful response that resolved last, whichever fetch was
\* started last.
C17_LastResponseWins ==
  [][ /\ Cardinality(Responded) <= 1
      /\ \A f \in Responded :
           /\ sLast'.n = f.n /\ sLast'.model = f.model
           /\ sLast'.type = "ok" => schema' = SchemaPayload(f.model)
           /\ sLast'.type # "ok" => schema' = schema
      /\ Responded = {} =>
           /\ schema' = schema
           /\ sInFlight \subseteq sInFlight'
    ]_vars

\* every fetch has resolved; the response that resolved last is the one of
\* the fetch for the earlier model name, and its payload is exposed
C17_Witness ==
  /\ sInFlight = {}
  /\ sCalls.requests >= 2
  /\ sLast.type = "ok"
  /\ sLast.n < sCalls.fetches
  /\ sLast.model # modelName
  /\ schema = SchemaPayload(sLast.model)

\* C18: after a change of the model name the hook does not expose the schema
\* of the previous model name any more: an exposed schema is that of the
\* current model name.
C18_PreviousSchemaDiscarded ==
  ~IsNull(schema) => schema.model_name = modelName

\* C19: the Previous control is disabled exactly when currentPage = 1 or the
\* disabled flag is set, the Next control exactly when currentPage =
\* totalPages or the flag is set, every page-number button exactly when the
\* flag is set; no page change is emitted while the flag is set, and with
\* 1 <= currentPage <= totalPages every emitted page is within 1..totalPages.
C19_DisabledControls ==
  /\ [](pgView.shown =>
          /\ pgView.prevDisabled <=> (currentPage = 1 \/ disabled)
          /\ pgView.nextDisabled <=> (currentPage = totalPages \/ disabled)
          /\ pgView.pageDisabled <=> disabled)
  /\ [][ (pgEmitted' # pgEmitted \/ currentPage' # currentPage) =>
           /\ ~disabled
           /\ pgView.shown
           /\ pgEmitted' \in 1..totalPages
           /\ currentPage' = pgEmitted'
       ]_vars

\* Next has led to the last of more than five pages and is disabled there
C19_Witness ==
  /\ totalPages > showPages
  /\ ~disabled
  /\ pgEmitted = totalPages
  /\ currentPage = totalPages
  /\ pgView.nextDisabled
  /\ ~pgView.prevDisabled

\* C20: a rollback restores the entire snapshot taken before the failed
\* mutation, so when two optimistic mutations on one query key overlap, the
\* rollback of one can discard the optimistic write of the other, which has
\* not failed: after every rollback the cached page of the key it wrote is
\* exactly the failed mutation's snapshot, whatever was written since.
C20_RollbackRestoresWholeSnapshot ==
  (cLast.type = "err" /\ cLast.kind \in {"update", "remove"}
     /\ cLast.previousData # NoData) =>
    query[cLast.rkey].data = cLast.previousData

\* an update of record id failed and was rolled back while a later remove of
\* the same record on the same key is still in flight and has not failed:
\* the record the remove had taken out of the cached page is in it again
C20_Witness ==
  /\ cLast.type = "err" /\ cLast.kind = "update"
  /\ cLast.rkey = cLast.key
  /\ \E m \in muts :
       /\ m.kind = "remove"
       /\ m.n > cLast.n
       /\ m.key = cLast.key
       /\ m.fc = 0 /\ m.resp # "err"
       /\ \E i \in 1..Len(m.previousData.data) : m.previousData.data[i].id = m.id
       /\ FilterOut(m.previousData.data, m.id) # m.previousData.data
       /\ \E i \in 1..Len(query[m.key].data.data) :
            query[m.key].data.data[i].id = m.id

\* C21: a DynamicForm created without initial data starts every field whose
\* schema entry has a default with that default as its draft value, so the
\* record a create submission passes to onSubmit has a value for each such
\* field, the default when the field was not touched.
C21_DefaultStartsDraft ==
  LET fields == SchemaPayload("Task").fields IN
  \A i \in 1..Len(fRequests) :
    fRequests[i].kind = "create" =>
      \A j \in 1..Len(fields) :
        HasDefault(fields[j]) =>
          /\ fields[j].name \in DOMAIN fRequests[i].data
          /\ fRequests[i].data[fields[j].name] \in BOOLEAN

\* C22: the draft an open form submits was initialised from the record the
\* submit targets: an update request for task T carries a draft that started
\* from T's data, a create request one that started empty.  No control
\* changes the id of a draft, so a draft that started from T has T's id and
\* one that started empty has none.
C22_DraftFromTarget ==
  \A i \in 1..Len(fRequests) :
    LET r == fRequests[i] IN
    IF r.kind = "update"
      THEN "id" \in DOMAIN r.data /\ r.data.id = r.id
      ELSE "id" \notin DOMAIN r.data

\* the cached page holds a record with this id
HasRow(data, id) == \E i \in 1..Len(data.data) : data.data[i].id = id

\* the optimistic write of the in-flight mutation m shows in a cached page:
\* the record is gone (remove) or has the new title (update)
ShowsWrite(data, m) ==
  /\ m.previousData # NoData
  /\ HasRow(m.previousData, m.id)
  /\ data # NoData
  /\ IF m.kind = "remove"
       THEN ~HasRow(data, m.id)
       ELSE /\ HasRow(data, m.id)
            /\ \A i \in 1..Len(data.data) :
                 data.data[i].id = m.id => data.data[i].title = m.data

\* C23: while an update or remove mutation is in flight, the response of a
\* list fetch for its query key does not overwrite its optimistic write to
\* the cached page, whenever that fetch was started.
C23_FetchKeepsOptimisticWrite ==
  [][ \A k \in Keys :
        (fetch[k].status = "ok" /\ fetch'[k] = IdleFetch /\ query'[k] # query[k]) =>
          \A m \in muts :
            (m.kind \in {"update", "remove"} /\ m.key = k /\ m \in muts'
               /\ ShowsWrite(query[k].data, m)) =>
              ShowsWrite(query'[k].data, m) ]_vars

\* pagination.totalCount: query.data?.total_count || 0
totalCount == IF HasData(query[page]) THEN query[page].data.total_count ELSE 0

\* C24: the optimistic step of remove(id) decrements the cached total_count
\* by exactly the number of records it removes from the cached page (none
\* when no record with that id is in it), and the totalCount the hook
\* reports is never negative.
C24_RemoveCountMatchesItems ==
  /\ \A m \in muts :
       (cLast.type = "remove" /\ cLast.n = m.n /\ m.previousData # NoData) =>
         LET now == query[m.key].data
             removed == Len(m.previousData.data) - Len(now.data)
         IN now.total_count = m.previousData.total_count - removed
  /\ totalCount >= 0

\* C25: useSchema reports loading = true in every state in which a schema
\* fetch has been started and has not yet resolved, also when another fetch
\* that was in flight at the same time has resolved.
C25_LoadingWhileInFlight ==
  sInFlight # {} => loading = TRUE

\* C26: with no fetch in flight, error and schema agree with the fetch that
\* resolved last: when it succeeded, error is null and schema is its payload.
C26_ErrorAgreesWithLastFetch ==
  (sInFlight = {} /\ sLast.type = "ok") =>
    /\ error = None
    /\ schema = SchemaPayload(sLast.model)

\* the requests of a kind that have been issued and have not ended
PendingRequests(kind) ==
  { i \in 1..Len(fRequests) :
      fRequests[i].kind = kind /\ fRequests[i].status = "pending" }

\* C27: while a create or update mutation issued by a form submission is
\* pending, a further submission of the form issues no second request: at
\* most one create request and at most one update request is in flight.
C27_OneRequestInFlight ==
  /\ Cardinality(PendingRequests("create")) <= 1
  /\ Cardinality(PendingRequests("update")) <= 1

\* the text is an integer literal: an optional sign and digits only
ValidInteger(str) ==
  LET body == Unsigned(str)
  IN body # <<>> /\ \A i \in 1..Len(body) : body[i] \in Digits

\* C28: entering a valid integer n into an integer field yields the draft
\* value n, for every n including 0 and negative numbers, and the same
\* holds for decimal fields; the draft is the empty string only for input
\* that is not a valid number.
C28_ValidNumberKept ==
  (Typed /\ dField.choices = <<>> /\ ValidInteger(dInput.value)) =>
    /\ dField.type \in IntegerTypes => dValue = parseInt(dInput.value)
    /\ dField.type \in DecimalTypes => dValue = parseFloat(dInput.value)

\* C29: for totalPages >= 2 and currentPage in 1..totalPages the page
\* sequence starts with page 1, ends with page totalPages, contains
\* currentPage, lists the page numbers in strictly increasing order, has at
\* most 7 entries, and has an ellipsis only between two page numbers with at
\* least one page omitted between them.
C29_PageSequenceShape ==
  LET ps == pgView.pages
      n == Len(ps)
  IN totalPages >= 2 =>
       /\ pgView.shown
       /\ n >= 2 /\ n <= 7
       /\ ps[1] = 1
       /\ ps[n] = totalPages
       /\ \E i \in 1..n : ps[i] = currentPage
       /\ \A i, j \in 1..n :
            (i < j /\ ps[i] # Ellipsis /\ ps[j] # Ellipsis) => ps[i] < ps[j]
       /\ \A i \in 1..n :
            ps[i] = Ellipsis =>
              /\ 1 < i /\ i < n
              /\ ps[i - 1] # Ellipsis /\ ps[i + 1] # Ellipsis
              /\ ps[i + 1] - ps[i - 1] >= 2

\* six pages, the smallest count with an ellipsis: after a click on page 3
\* the one ellipsis stands for page 5 alone
C29_Witness ==
  /\ totalPages = 6
  /\ pgEmitted = 3
  /\ currentPage = 3
  /\ pgView.pages = <<1, 2, 3, 4, Ellipsis, 6>>

\* C30: for every interleaving of toggle, save and delete operations whose
\* requests all succeed, once all of them have completed the displayed list
\* is the initial list with every update and every delete applied, which
\* is the list the backend holds: a deleted task has not reappeared and no
\* completed update has been reverted.
C30_ListMatchesBackend ==
  (lOps = {} /\ ~lFailed) => lTasks = lServer

====
